---- MODULE Spec2Model ----
(***************************************************************************)
(* A model of function-claude-status-transformer: RunFunction's            *)
(* preparation steps, its tool-calling conversation loop with the model    *)
(* service, the JSON status codec it uses in both directions, and          *)
(* lastStatusFromObserved.                                                 *)
(*                                                                         *)
(* JSON texts are sequences of tokens; encoding/json's Marshal and         *)
(* Unmarshal are modelled over these tokens for the two Go types the       *)
(* program decodes into (CompositionStatus and []composedResourceStatus). *)
(***************************************************************************)
EXTENDS Integers, Sequences, FiniteSets, TLC

\* ------------------------------------------------------------------------
\* Bounds of the model.
\* ------------------------------------------------------------------------

\* Most model-service calls (client.Messages.New) explored per request.
MaxCalls == 2

\* Most content blocks in one model reply.
MaxBlocks == 2

\* ------------------------------------------------------------------------
\* Program constants.
\* ------------------------------------------------------------------------

submitStatusToolName == "submit_status"

conditionTypeClaudeHealthy == "HealthyAccordingToClaude"

\* The fixed instruction prompt (first user turn).
prompt == "prompt"

\* ------------------------------------------------------------------------
\* JSON texts: sequences of tokens.  Whitespace is a token of its own;
\* string literals, the literals true/false/null and any other character
\* are single tokens.
\* ------------------------------------------------------------------------

Punct(c) == [k |-> "p", v |-> c]
Str(s)   == [k |-> "s", v |-> s]
Lit(l)   == [k |-> "l", v |-> l]

LBrace == Punct("{")
RBrace == Punct("}")
LBrack == Punct("[")
RBrack == Punct("]")
Colon  == Punct(":")
Comma  == Punct(",")
Space  == Punct(" ")
\* A character that starts no JSON value.
Junk   == [k |-> "x", v |-> "?"]
Null   == Lit("null")

\* ------------------------------------------------------------------------
\* The Go types.  A slice is a record so that a nil slice and an empty
\* slice stay different values, as they are to encoding/json.
\* ------------------------------------------------------------------------

NilSlice      == [isNil |-> TRUE, items |-> <<>>]
MkSlice(its)  == [isNil |-> FALSE, items |-> its]

composedResourceStatus(n, ns, kd, av, rd, msg) ==
    [name |-> n, namespace |-> ns, kind |-> kd, apiVersion |-> av,
     ready |-> rd, message |-> msg]

ZeroResourceStatus == composedResourceStatus("", "", "", "", FALSE, "")

CompositionStatus(rs, os, sm) ==
    [resourceStatuses |-> rs, overallStatus |-> os, summary |-> sm]

ZeroStatus == CompositionStatus(NilSlice, "", "")

\* ------------------------------------------------------------------------
\* json.Marshal
\* ------------------------------------------------------------------------

Member(key, val) == <<Str(key), Colon>> \o val

EncBool(b) == << Lit(IF b THEN "true" ELSE "false") >>

\* json.Marshal(composedResourceStatus): fields in declaration order, the
\* namespace left out when empty (omitempty).
EncResourceStatus(r) ==
    <<LBrace>> \o Member("name", <<Str(r.name)>>) \o
    (IF r.namespace = "" THEN <<>>
     ELSE <<Comma>> \o Member("namespace", <<Str(r.namespace)>>)) \o
    <<Comma>> \o Member("kind", <<Str(r.kind)>>) \o
    <<Comma>> \o Member("apiVersion", <<Str(r.apiVersion)>>) \o
    <<Comma>> \o Member("ready", EncBool(r.ready)) \o
    <<Comma>> \o Member("message", <<Str(r.message)>>) \o <<RBrace>>

RECURSIVE EncItems(_)
EncItems(its) ==
    IF its = <<>> THEN <<>>
    ELSE IF Len(its) = 1 THEN EncResourceStatus(its[1])
    ELSE EncResourceStatus(its[1]) \o <<Comma>> \o EncItems(Tail(its))

\* json.Marshal([]composedResourceStatus): a nil slice is null.
EncResourceStatuses(rs) ==
    IF rs.isNil THEN <<Null>> ELSE <<LBrack>> \o EncItems(rs.items) \o <<RBrack>>

\* json.Marshal(CompositionStatus)
EncStatus(s) ==
    <<LBrace>> \o Member("resourceStatuses", EncResourceStatuses(s.resourceStatuses)) \o
    <<Comma>> \o Member("overallStatus", <<Str(s.overallStatus)>>) \o
    <<Comma>> \o Member("summary", <<Str(s.summary)>>) \o <<RBrace>>

\* ------------------------------------------------------------------------
\* json.Unmarshal: first the syntax check of the whole text, then the
\* decoding into the Go value.
\* ------------------------------------------------------------------------

NoSpace(text) == SelectSeq(text, LAMBDA tok : tok # Space)

errUnexpectedEnd == "unexpected end of JSON input"
errInvalidChar   == "invalid character"
errCannotUnmarshal == "json: cannot unmarshal into Go value"

\* ScanValue(t, i) is the index after the JSON value starting at t[i]; 0
\* when the text ends inside the value, -1 at a character no value allows
\* there.  AfterElem and AfterMember continue behind an array element and
\* an object member ending before t[j].
RECURSIVE ScanValue(_, _), ScanElems(_, _), ScanMembers(_, _), AfterElem(_, _), AfterMember(_, _)
ScanValue(t, i) ==
    IF i > Len(t) THEN 0
    ELSE IF t[i].k \in {"s", "l"} THEN i + 1
    ELSE IF t[i] = LBrack
         THEN IF i + 1 <= Len(t) /\ t[i + 1] = RBrack THEN i + 2
              ELSE ScanElems(t, i + 1)
    ELSE IF t[i] = LBrace
         THEN IF i + 1 <= Len(t) /\ t[i + 1] = RBrace THEN i + 2
              ELSE ScanMembers(t, i + 1)
    ELSE -1

AfterElem(t, j) ==
    IF j <= 0 THEN j
    ELSE IF j > Len(t) THEN 0
    ELSE IF t[j] = Comma THEN ScanElems(t, j + 1)
    ELSE IF t[j] = RBrack THEN j + 1
    ELSE -1

ScanElems(t, i) == AfterElem(t, ScanValue(t, i))

AfterMember(t, j) ==
    IF j <= 0 THEN j
    ELSE IF j > Len(t) THEN 0
    ELSE IF t[j] = Comma THEN ScanMembers(t, j + 1)
    ELSE IF t[j] = RBrace THEN j + 1
    ELSE -1

ScanMembers(t, i) ==
    IF i > Len(t) THEN 0
    ELSE IF t[i].k # "s" THEN -1
    ELSE IF i + 1 > Len(t) THEN 0
    ELSE IF t[i + 1] # Colon THEN -1
    ELSE AfterMember(t, ScanValue(t, i + 2))

\* The syntax error of a text whose first value ends before t[j]; "" when
\* the text is exactly one JSON value.
SyntaxErrorAt(t, j) ==
    IF j = 0 THEN errUnexpectedEnd
    ELSE IF j < 0 THEN errInvalidChar
    ELSE IF j <= Len(t) THEN errInvalidChar
    ELSE ""

\* checkValid
SyntaxError(t) == SyntaxErrorAt(t, ScanValue(t, 1))

\* Decoding yields the value decoded so far (v) and whether a value of the
\* wrong JSON type was met (bad).
Decoded(v)   == [v |-> v, bad |-> FALSE]
Then(acc, d) == [v |-> d.v, bad |-> acc.bad \/ d.bad]
WithField(r, key, d) == [v |-> [r EXCEPT ![key] = d.v], bad |-> d.bad]
AsSlice(d)   == [v |-> MkSlice(d.v), bad |-> d.bad]
Appended(acc, d) == [v |-> Append(acc.v, d.v), bad |-> acc.bad \/ d.bad]

\* A string field: a string is stored, null leaves the field, anything
\* else is a type error (and leaves the field).
DecString(t, i, old) ==
    IF t[i].k = "s" THEN [v |-> t[i].v, bad |-> FALSE]
    ELSE IF t[i] = Null THEN [v |-> old, bad |-> FALSE]
    ELSE [v |-> old, bad |-> TRUE]

DecBool(t, i, old) ==
    IF t[i] = Lit("true") THEN [v |-> TRUE, bad |-> FALSE]
    ELSE IF t[i] = Lit("false") THEN [v |-> FALSE, bad |-> FALSE]
    ELSE IF t[i] = Null THEN [v |-> old, bad |-> FALSE]
    ELSE [v |-> old, bad |-> TRUE]

\* One member of a composedResourceStatus object, by its json tag; a key
\* that names no field is skipped.
SetResourceField(r, key, t, i) ==
    IF key \in {"name", "namespace", "kind", "apiVersion", "message"}
    THEN WithField(r, key, DecString(t, i, r[key]))
    ELSE IF key = "ready" THEN WithField(r, key, DecBool(t, i, r.ready))
    ELSE Decoded(r)

\* The members of an object from t[i] (a key) on, folded into acc; j is
\* the index after the member's value.
RECURSIVE DecResourceMembers(_, _, _), MoreResourceMembers(_, _, _)
DecResourceMembers(t, i, acc) ==
    MoreResourceMembers(t, ScanValue(t, i + 2),
                        Then(acc, SetResourceField(acc.v, t[i].v, t, i + 2)))

MoreResourceMembers(t, j, acc) ==
    IF t[j] = Comma THEN DecResourceMembers(t, j + 1, acc) ELSE acc

\* A composedResourceStatus from the value at t[i].
DecResourceStatus(t, i) ==
    IF t[i] = Null THEN Decoded(ZeroResourceStatus)
    ELSE IF t[i] # LBrace THEN [v |-> ZeroResourceStatus, bad |-> TRUE]
    ELSE IF t[i + 1] = RBrace THEN Decoded(ZeroResourceStatus)
    ELSE DecResourceMembers(t, i + 1, Decoded(ZeroResourceStatus))

RECURSIVE DecElems(_, _, _), MoreElems(_, _, _)
DecElems(t, i, acc) ==
    MoreElems(t, ScanValue(t, i), Appended(acc, DecResourceStatus(t, i)))

MoreElems(t, j, acc) ==
    IF t[j] = Comma THEN DecElems(t, j + 1, acc) ELSE acc

\* A []composedResourceStatus from the value at t[i]: null makes the slice
\* nil, an array replaces its elements, anything else is a type error.
DecResourceStatuses(t, i, old) ==
    IF t[i] = Null THEN Decoded(NilSlice)
    ELSE IF t[i] # LBrack THEN [v |-> old, bad |-> TRUE]
    ELSE IF t[i + 1] = RBrack THEN Decoded(MkSlice(<<>>))
    ELSE AsSlice(DecElems(t, i + 1, Decoded(<<>>)))

SetStatusField(s, key, t, i) ==
    IF key = "resourceStatuses"
    THEN WithField(s, key, DecResourceStatuses(t, i, s.resourceStatuses))
    ELSE IF key \in {"overallStatus", "summary"}
    THEN WithField(s, key, DecString(t, i, s[key]))
    ELSE Decoded(s)

RECURSIVE DecStatusMembers(_, _, _), MoreStatusMembers(_, _, _)
DecStatusMembers(t, i, acc) ==
    MoreStatusMembers(t, ScanValue(t, i + 2),
                      Then(acc, SetStatusField(acc.v, t[i].v, t, i + 2)))

MoreStatusMembers(t, j, acc) ==
    IF t[j] = Comma THEN DecStatusMembers(t, j + 1, acc) ELSE acc

\* A CompositionStatus from the value at t[1].
DecStatus(t, old) ==
    IF t[1] = Null THEN Decoded(old)
    ELSE IF t[1] # LBrace THEN [v |-> old, bad |-> TRUE]
    ELSE IF t[2] = RBrace THEN Decoded(old)
    ELSE DecStatusMembers(t, 2, Decoded(old))

\* The outcome of json.Unmarshal: err is "" on success, else the error text.
Unmarshalled(d) == [err |-> IF d.bad THEN errCannotUnmarshal ELSE "", v |-> d.v]

UnmarshalStatusTokens(t, e) ==
    IF e # "" THEN [err |-> e, v |-> ZeroStatus]
    ELSE Unmarshalled(DecStatus(t, ZeroStatus))

UnmarshalStatusNoSpace(t) == UnmarshalStatusTokens(t, SyntaxError(t))

\* json.Unmarshal(text, &status) with status a zero CompositionStatus.
UnmarshalStatus(text) == UnmarshalStatusNoSpace(NoSpace(text))

UnmarshalResourceStatusesTokens(t, e, old) ==
    IF e # "" THEN [err |-> e, v |-> old]
    ELSE Unmarshalled(DecResourceStatuses(t, 1, old))

UnmarshalResourceStatusesNoSpace(t, old) ==
    UnmarshalResourceStatusesTokens(t, SyntaxError(t), old)

\* json.Unmarshal(text, &statuses) with statuses the given slice.
UnmarshalResourceStatuses(text, old) ==
    UnmarshalResourceStatusesNoSpace(NoSpace(text), old)

\* ------------------------------------------------------------------------
\* The request: what RunFunction reads from the RunFunctionRequest.
\* ------------------------------------------------------------------------

\* A condition of the observed composite resource.
Condition(ty, st, msg, rsn) == [type |-> ty, status |-> st, message |-> msg, reason |-> rsn]

\* Resource statuses the model service reports.
StalledDB     == composedResourceStatus("db-1", "default", "RDSInstance", "v1", FALSE, "creation stalled")
StalledStatus == CompositionStatus(MkSlice(<<StalledDB>>), "NotReady", "db-1 is stalled")
HealthyStatus == CompositionStatus(MkSlice(<<>>), "Ready", "No unhealthy resources found")

\* Conditions of type HealthyAccordingToClaude found on observed composites:
\* the two this function attaches itself, one whose status is Unknown, one
\* whose reason is the same array written with whitespace, one whose reason
\* is cut short and one whose reason is empty.
PriorConditions ==
    { Condition(conditionTypeClaudeHealthy, "True", HealthyStatus.summary,
                EncResourceStatuses(HealthyStatus.resourceStatuses)),
      Condition(conditionTypeClaudeHealthy, "False", StalledStatus.summary,
                EncResourceStatuses(StalledStatus.resourceStatuses)),
      Condition(conditionTypeClaudeHealthy, "Unknown", HealthyStatus.summary,
                EncResourceStatuses(HealthyStatus.resourceStatuses)),
      Condition(conditionTypeClaudeHealthy, "False", HealthyStatus.summary,
                <<LBrack, Space, RBrack>>),
      Condition(conditionTypeClaudeHealthy, "False", StalledStatus.summary,
                <<LBrack, LBrace, Str("name"), Colon>>),
      Condition(conditionTypeClaudeHealthy, "True", HealthyStatus.summary, <<>>) }

\* The condition RunFunction attaches for a status, as the next request
\* observes it.
AsCondition(s) ==
    Condition(conditionTypeClaudeHealthy, IF s.overallStatus = "Ready" THEN "True" ELSE "False",
              s.summary, EncResourceStatuses(s.resourceStatuses))

\* Every observed composite carries the Ready condition Crossplane sets.
ReadyCondition == Condition("Ready", "False", "", <<Str("Creating")>>)

ObservedConditions ==
    { <<ReadyCondition>> } \cup { <<ReadyCondition, c>> : c \in PriorConditions }

\* Observed composed resources by name: a resource that marshals ("ok"),
\* a nil entry ("nil"), or a resource protojson cannot marshal ("bad").
ComposedKeys == <<"db-1", "vpc">>

ComposedInputs ==
    { [k \in {"db-1", "vpc"} |-> IF k = "db-1" THEN "ok" ELSE "nil"],
      [k \in {"db-1", "vpc"} |-> IF k = "db-1" THEN "bad" ELSE "ok"],
      [k \in {"db-1", "vpc"} |-> "bad"] }

\* How the request authenticates to the model service: an API key in the
\* request's credentials (present or missing), or AWS (derivable or not).
AuthInputs == {"key", "nokey", "aws", "awsbad"}

\* The desired state a request carries: nothing yet (the function is the
\* first of the pipeline), or a composite and a composed resource that
\* earlier functions desired.
NoDesired     == [composite |-> "", resources |-> {}]
DesiredStates == { NoDesired, [composite |-> "desired-xr", resources |-> {"db-1"}] }

Requests ==
    [ input      : {"ok", "bad"},
      composite  : {"ok", "bad"},
      conditions : ObservedConditions,
      composed   : ComposedInputs,
      auth       : AuthInputs,
      desired    : DesiredStates ]

\* ------------------------------------------------------------------------
\* The response.
\* ------------------------------------------------------------------------

severityFatal  == "SEVERITY_FATAL"
severityNormal == "SEVERITY_NORMAL"
statusTrue     == "STATUS_CONDITION_TRUE"
statusFalse    == "STATUS_CONDITION_FALSE"

\* A variant that starts from an empty desired state.
ResponseToBlank(r) == [desired |-> NoDesired, conditions |-> <<>>, results |-> <<>>]

\* response.To: the response takes over the request's desired state.
ResponseTo(r) == [desired |-> r.desired, conditions |-> <<>>, results |-> <<>>]

\* response.Fatal: one more result of fatal severity.  A message is the
\* sequence of the pieces it is formatted from.
Fatal(r, msg) ==
    [r EXCEPT !.results = Append(@, [severity |-> severityFatal, message |-> msg, reason |-> <<>>])]

\* errors.Wrap(err, text)
Wrap(err, text) == <<text>> \o err

\* ------------------------------------------------------------------------
\* Preparation (RunFunction up to the conversation).
\* ------------------------------------------------------------------------

\* marshaler.Marshal of the observed composite.
MarshalComposite(r) ==
    IF r.composite = "ok" THEN [text |-> "composite-json", err |-> <<>>]
    ELSE [text |-> "", err |-> <<"proto: cannot marshal">>]

\* The range loop of ProtoMapToJSON over the keys in the order visited:
\* the first resource that fails to marshal ends the conversion.
RECURSIVE VisitProtoMap(_, _)
VisitProtoMap(protoMap, order) ==
    IF order = <<>> THEN <<>>
    ELSE IF protoMap[Head(order)] = "bad"
    THEN <<"failed to marshal proto message for key ", Head(order), "proto: cannot marshal">>
    ELSE VisitProtoMap(protoMap, Tail(order))

\* json.MarshalIndent of the result map: one entry per key, keys sorted.
IndentEntries(protoMap, keys) ==
    [i \in 1..Len(keys) |->
        [key |-> keys[i], value |-> IF protoMap[keys[i]] = "nil" THEN "null" ELSE "resource-json"]]

MarshalIndent(protoMap) ==
    IndentEntries(protoMap, SelectSeq(ComposedKeys, LAMBDA k : k \in DOMAIN protoMap))

ProtoMapToJSONAfter(protoMap, e) ==
    IF e # <<>> THEN [text |-> <<>>, err |-> e]
    ELSE [text |-> MarshalIndent(protoMap), err |-> <<>>]

ProtoMapToJSON(protoMap, order) ==
    ProtoMapToJSONAfter(protoMap, VisitProtoMap(protoMap, order))

\* The orders in which a range loop may visit a map's keys.
VisitOrders(protoMap) ==
    LET n == Cardinality(DOMAIN protoMap) IN
    { o \in [1..n -> DOMAIN protoMap] : \A i, j \in 1..n : o[i] = o[j] => i = j }

\* (*Unstructured).GetCondition: the condition of that type, or an Unknown
\* condition with empty message and reason when there is none.
RECURSIVE GetCondition(_, _)
GetCondition(conds, ct) ==
    IF conds = <<>> THEN Condition(ct, "Unknown", "", <<>>)
    ELSE IF Head(conds).type = ct THEN Head(conds)
    ELSE GetCondition(Tail(conds), ct)

\* The overall status lastStatusFromObserved derives from a condition status.
OverallStatusOfInverted(st) == IF st # "True" THEN "Ready" ELSE "NotReady"
OverallStatusOf(st) == IF st = "True" THEN "Ready" ELSE "NotReady"

\* A variant that does not take the summary from the condition message.
lastStatusOfNoSummary(cond, u) ==
    IF u.err # ""
    THEN [status |-> ZeroStatus,
          err |-> Wrap(<<u.err>>, "cannot unmarshal resource statuses from condition reason")]
    ELSE [status |-> CompositionStatus(u.v, OverallStatusOf(cond.status), ""),
          err |-> <<>>]

\* lastStatusFromObserved from the condition found and the outcome u of
\* unmarshalling its reason.
lastStatusOf(cond, u) ==
    IF u.err # ""
    THEN [status |-> ZeroStatus,
          err |-> Wrap(<<u.err>>, "cannot unmarshal resource statuses from condition reason")]
    ELSE [status |-> CompositionStatus(u.v, OverallStatusOf(cond.status), cond.message),
          err |-> <<>>]

lastStatusFromCondition(cond) ==
    lastStatusOf(cond, UnmarshalResourceStatuses(cond.reason, MkSlice(<<>>)))

lastStatusFromObserved(r) ==
    lastStatusFromCondition(GetCondition(r.conditions, conditionTypeClaudeHealthy))

\* The rendered data prompt: the template's four substitutions.
Variables(xr, cds, lastStatusJSON, in) ==
    [Composite |-> xr, Composed |-> cds, LastStatus |-> lastStatusJSON, Input |-> in]

UseAWS(r) == r.auth \in {"aws", "awsbad"}

\* getClient: a configured client, or the zero anthropic.Client and an
\* error.  configOK is the outcome of deriving the AWS config.
getClient(r, configOK) ==
    IF UseAWS(r)
    THEN IF configOK THEN [client |-> "bedrock", err |-> <<>>]
         ELSE [client |-> "zero", err |-> <<"failed to derive AWS Config from the environment">>]
    ELSE IF r.auth = "key" THEN [client |-> "anthropic", err |-> <<>>]
         ELSE [client |-> "zero", err |-> <<"failed to retrieve Anthropic API key">>]

\* Deriving the AWS config takes the request context: it succeeds with a
\* live context and usable configuration, and may go either way once the
\* context is cancelled.
ConfigOutcomes(r, cancelled) ==
    IF r.auth = "aws" THEN (IF cancelled THEN BOOLEAN ELSE {TRUE}) ELSE {FALSE}

\* ------------------------------------------------------------------------
\* Messages and content blocks.
\* ------------------------------------------------------------------------

TextParam(t) == [type |-> "text", text |-> t]

UserMessage(blocks) == [role |-> "user", content |-> blocks]

\* anthropic.NewToolResultBlock
NewToolResultBlock(id, content, isError) ==
    [type |-> "tool_result", tool_use_id |-> id, content |-> content, is_error |-> isError]

\* The tool input of a tool-use block: whether it has a status_stream
\* property, and that property's string.
ToolInput(has, text) == [present |-> has, status_stream |-> text]

TextBlock == [type |-> "text", name |-> "", input |-> ToolInput(FALSE, <<>>)]
ToolUseBlock(nm, in) == [type |-> "tool_use", name |-> nm, input |-> in]

\* gjson.Get(raw, "status_stream").String(): "" when there is no such property.
StatusStreamOf(in) == IF in.present THEN in.status_stream ELSE <<>>

\* A variant that keeps the reply as a user turn.
ToParamAsUser(blocks) == [role |-> "user", content |-> blocks]

\* Message.ToParam: the reply as an assistant turn.
ToParam(blocks) == [role |-> "assistant", content |-> blocks]

\* ------------------------------------------------------------------------
\* What the model service may answer.
\* ------------------------------------------------------------------------

\* A status text cut short, as when the output-token ceiling is hit.
TruncatedStream == SubSeq(EncStatus(StalledStatus), 1, 9)

\* A text with whitespace after the separators.
RECURSIVE Spaced(_)
Spaced(text) ==
    IF text = <<>> THEN <<>>
    ELSE IF Head(text) \in {Colon, Comma} THEN <<Head(text), Space>> \o Spaced(Tail(text))
    ELSE <<Head(text)>> \o Spaced(Tail(text))

\* A status with an overall status outside Ready/NotReady and no
\* resourceStatuses member, written with whitespace.
DegradedStream ==
    Spaced(<<LBrace>> \o Member("overallStatus", <<Str("Degraded")>>) \o
           <<Comma>> \o Member("summary", <<Str("partly working")>>) \o <<RBrace>>)

\* The status streams of submit_status calls: a truncated text, a status
\* outside the data model, the JSON null, and the last status of the data
\* prompt given back.
StatusStreams(lastStatusJSON) ==
    { TruncatedStream, DegradedStream, <<Null>>, lastStatusJSON }

ReplyBlocks(lastStatusJSON) ==
    { TextBlock, ToolUseBlock("other_tool", ToolInput(FALSE, <<>>)),
      ToolUseBlock(submitStatusToolName, ToolInput(FALSE, <<>>)),
      ToolUseBlock(submitStatusToolName, ToolInput(TRUE, <<>>)) }
    \cup { ToolUseBlock(submitStatusToolName, ToolInput(TRUE, y)) : y \in StatusStreams(lastStatusJSON) }

\* The service gives every tool-use block of a reply its own id.
WithIDs(blocks, call) ==
    [i \in 1..Len(blocks) |->
        [type |-> blocks[i].type, id |-> <<call, i>>, name |-> blocks[i].name, input |-> blocks[i].input]]

Replies(lastStatusJSON) ==
    UNION { [1..n -> ReplyBlocks(lastStatusJSON)] : n \in 0..MaxBlocks }

errContextCanceled == "context canceled"
errNoBaseURL       == "requestconfig: base url is not set"
errService         == "model service error"

\* client.Messages.New: the zero client and a cancelled context yield an
\* error; otherwise the service answers with an error or with a reply.
MessagesNew(cl, cancelled, call, lastStatusJSON) ==
    IF cl = "zero" THEN { [ok |-> FALSE, content |-> <<>>, err |-> errNoBaseURL] }
    ELSE IF cancelled THEN { [ok |-> FALSE, content |-> <<>>, err |-> errContextCanceled] }
    ELSE { [ok |-> FALSE, content |-> <<>>, err |-> errService] } \cup
         { [ok |-> TRUE, content |-> WithIDs(b, call), err |-> ""] : b \in Replies(lastStatusJSON) }

\* ------------------------------------------------------------------------
\* The conversation (RunFunction's loop).
\* ------------------------------------------------------------------------

\* A variant that takes every status but NotReady for healthy.
ConditionStatusOfLoose(overallStatus) ==
    IF overallStatus = "NotReady" THEN statusFalse ELSE statusTrue

\* The condition status for an overall status.
ConditionStatusOf(overallStatus) ==
    IF overallStatus = "Ready" THEN statusTrue ELSE statusFalse

\* The condition built from a decoded status.
ConditionOf(status) ==
    [type    |-> conditionTypeClaudeHealthy,
     message |-> status.summary,
     reason  |-> EncResourceStatuses(status.resourceStatuses),
     status  |-> ConditionStatusOf(status.overallStatus)]

\* The result built from a decoded status.
ResultOf(status) ==
    [severity |-> severityNormal,
     message  |-> <<status.summary>>,
     reason   |-> EncResourceStatuses(status.resourceStatuses)]

\* The response after a decoded submission: one more condition and one
\* more result of normal severity.
SubmitStatus(r, status) ==
    [r EXCEPT !.conditions = Append(@, ConditionOf(status)),
              !.results    = Append(@, ResultOf(status))]

\* The scan either returns from RunFunction with a response, or goes on
\* with the tool results gathered.
Returned(r, toolResults)  == [returned |-> TRUE, rsp |-> r, toolResults |-> toolResults]
Scanned(r, toolResults)   == [returned |-> FALSE, rsp |-> r, toolResults |-> toolResults]

\* The scan of a reply's content blocks from block i on.  ScanSubmit is the
\* submit_status case with y the status stream, ScanDecoded what follows
\* json.Unmarshal with outcome u.
RECURSIVE ScanBlocks(_, _, _, _), ScanSubmit(_, _, _, _, _), ScanDecoded(_, _, _, _, _)
\* A variant of the scan that skips a tool it does not know.
ScanBlocksSkipUnknown(blocks, i, toolResults, r) ==
    IF i > Len(blocks) THEN Scanned(r, toolResults)
    ELSE IF blocks[i].type = "tool_use" /\ blocks[i].name = submitStatusToolName
    THEN ScanSubmit(blocks, i, toolResults, r, StatusStreamOf(blocks[i].input))
    ELSE ScanBlocks(blocks, i + 1, toolResults, r)

ScanBlocks(blocks, i, toolResults, r) ==
    IF i > Len(blocks) THEN Scanned(r, toolResults)
    ELSE IF blocks[i].type = "tool_use"
    THEN IF blocks[i].name = submitStatusToolName
         THEN ScanSubmit(blocks, i, toolResults, r, StatusStreamOf(blocks[i].input))
         ELSE Returned(Fatal(r, <<"Claude tried to use unknown tool ", blocks[i].name>>), toolResults)
    ELSE ScanBlocks(blocks, i + 1, toolResults, r)

\* A variant that hands an empty status_stream to the decoder.
ScanSubmitNoEmptyCheck(blocks, i, toolResults, r, y) ==
    ScanDecoded(blocks, i, toolResults, r, UnmarshalStatus(y))

ScanSubmit(blocks, i, toolResults, r, y) ==
    IF y = <<>>
    THEN Returned(Fatal(r, <<"Claude didn't provide 'status_stream' input property for tool ",
                             blocks[i].name>>), toolResults)
    ELSE ScanDecoded(blocks, i, toolResults, r, UnmarshalStatus(y))

\* A variant that goes on scanning after a decoded submission.
ScanDecodedNoReturn(blocks, i, toolResults, r, u) ==
    IF u.err # ""
    THEN ScanBlocks(blocks, i + 1,
                    Append(toolResults, NewToolResultBlock(blocks[i].id, u.err, u.err # "")), r)
    ELSE ScanBlocks(blocks, i + 1, toolResults, SubmitStatus(r, u.v))

\* A variant that puts the latest tool result first.
ScanDecodedPrepend(blocks, i, toolResults, r, u) ==
    IF u.err # ""
    THEN ScanBlocks(blocks, i + 1,
                    <<NewToolResultBlock(blocks[i].id, u.err, u.err # "")>> \o toolResults, r)
    ELSE Returned(SubmitStatus(r, u.v), toolResults)

\* A variant that feeds back an empty tool result, not marked as an error.
ScanDecodedNoErrorText(blocks, i, toolResults, r, u) ==
    IF u.err # ""
    THEN ScanBlocks(blocks, i + 1,
                    Append(toolResults, NewToolResultBlock(blocks[i].id, "", FALSE)), r)
    ELSE Returned(SubmitStatus(r, u.v), toolResults)

ScanDecoded(blocks, i, toolResults, r, u) ==
    IF u.err # ""
    THEN ScanBlocks(blocks, i + 1,
                    Append(toolResults, NewToolResultBlock(blocks[i].id, u.err, u.err # "")), r)
    ELSE Returned(SubmitStatus(r, u.v), toolResults)

\* ------------------------------------------------------------------------
\* State.
\* ------------------------------------------------------------------------

VARIABLES
    req,           \* the RunFunctionRequest
    pc,            \* "start", "loop" (at the head of the for loop), "done" (returned)
    ctxCancelled,  \* whether the request context is cancelled
    client,        \* "none" before getClient; then "anthropic", "bedrock" or "zero"
    messages,      \* the message history
    rsp,           \* the response
    nCalls,        \* calls of client.Messages.New so far
    sent,          \* the Messages of the latest call
    message,       \* the outcome of the latest call: a reply's content, or an error
    returnedErr,   \* the Go error RunFunction returned: "nil", or "none" before the return
    cur,           \* the invocation the variables above are the locals of
    parked         \* the locals of the other invocations running on the Function

vars == <<req, pc, ctxCancelled, client, messages, rsp, nCalls, sent, message, returnedErr,
          cur, parked>>

NoMessage == [ok |-> FALSE, content |-> <<>>, err |-> ""]

Init ==
    /\ req \in Requests
    /\ pc = "start"
    /\ ctxCancelled = FALSE
    /\ client = "none"
    /\ messages = <<>>
    /\ rsp = [desired |-> NoDesired, conditions |-> <<>>, results |-> <<>>]
    /\ nCalls = 0
    /\ sent = <<>>
    /\ message = NoMessage
    /\ returnedErr = "none"
    /\ cur = 1
    /\ parked = <<>>

\* RunFunction returns r, nil.
Return(r) ==
    /\ rsp' = r
    /\ pc' = "done"
    /\ returnedErr' = "nil"

\* The last status given to the model in the data prompt.
LastStatusJSON == messages[2].content[1].text.LastStatus

\* The two user turns the history starts with.
InitialMessages(xr, cds, lastStatus) ==
    << UserMessage(<<TextParam(prompt)>>),
       UserMessage(<<TextParam(Variables(xr, cds, EncStatus(lastStatus), "additional context"))>>) >>

\* RunFunction from its start to the head of the loop, given the response
\* r0 and the outcomes of marshalling the composite (xr), of ProtoMapToJSON
\* (cds), of lastStatusFromObserved (ls) and of getClient (c).
PrepareWith(r0, xr, cds, ls, c) ==
    IF req.input # "ok"
    THEN Return(Fatal(r0, <<"cannot get Function input from request">>))
         /\ UNCHANGED <<client, messages>>
    ELSE IF xr.err # <<>>
    THEN Return(Fatal(r0, Wrap(xr.err, "cannot convert observed XR to YAML")))
         /\ UNCHANGED <<client, messages>>
    ELSE IF cds.err # <<>>
    THEN Return(Fatal(r0, Wrap(cds.err, "cannot convert observed composed resources to YAML")))
         /\ UNCHANGED <<client, messages>>
    ELSE IF ls.err # <<>>
    THEN Return(Fatal(r0, Wrap(ls.err, "cannot get last status from observed")))
         /\ UNCHANGED <<client, messages>>
    ELSE /\ rsp' = (IF c.err # <<>> THEN Fatal(r0, Wrap(c.err, "cannot get LLM client")) ELSE r0)
         /\ client' = c.client
         /\ messages' = InitialMessages(xr.text, cds.text, ls.status)
         /\ pc' = "loop"
         /\ UNCHANGED returnedErr

Prepare ==
    /\ pc = "start"
    /\ UNCHANGED <<req, ctxCancelled, nCalls, sent, message, cur, parked>>
    /\ \E order \in VisitOrders(req.composed), configOK \in ConfigOutcomes(req, ctxCancelled) :
         \E xr \in {MarshalComposite(req)}, cds \in {ProtoMapToJSON(req.composed, order)},
            ls \in {lastStatusFromObserved(req)}, c \in {getClient(req, configOK)} :
              PrepareWith(ResponseTo(req), xr, cds, ls, c)

\* What the model retains of a history.  The program keeps the whole
\* history; the unbounded runs keep the two initial turns and the latest
\* two turns (nothing in the loop reads the history back).
Keep(history, live) ==
    IF live /\ Len(history) > 4
    THEN SubSeq(history, 1, 2) \o SubSeq(history, Len(history) - 1, Len(history))
    ELSE history

\* A variant that goes round again when no tool result was gathered.
LoopOutcomeNoBreak(scan) ==
    IF scan.returned THEN "return" ELSE "continue"

\* What the loop does after the scan of a reply: "return" from inside the
\* scan, "break" when no tool result was gathered, else "continue".
LoopOutcome(scan) ==
    IF scan.returned THEN "return"
    ELSE IF Len(scan.toolResults) = 0 THEN "break"
    ELSE "continue"

\* A variant that feeds the tool results back also when the scan returned.
AfterReplyFeedsBack(saved, scan, live) ==
    IF LoopOutcome(scan) = "return"
    THEN Return(scan.rsp) /\ messages' = Keep(Append(saved, UserMessage(scan.toolResults)), live)
    ELSE IF LoopOutcome(scan) = "break"
    THEN /\ Return(Fatal(scan.rsp, <<"Claude didn't return a YAML stream of composed resource manifests">>))
         /\ messages' = Keep(saved, live)
    ELSE /\ messages' = Keep(Append(saved, UserMessage(scan.toolResults)), live)
         /\ rsp' = scan.rsp
         /\ UNCHANGED <<pc, returnedErr>>

\* The rest of an iteration after a reply: saved is the history with the
\* reply appended and scan the outcome of scanning its blocks.
AfterReply(saved, scan, live) ==
    IF LoopOutcome(scan) = "return"
    THEN Return(scan.rsp) /\ messages' = Keep(saved, live)
    ELSE IF LoopOutcome(scan) = "break"
    THEN /\ Return(Fatal(scan.rsp, <<"Claude didn't return a YAML stream of composed resource manifests">>))
         /\ messages' = Keep(saved, live)
    ELSE /\ messages' = Keep(Append(saved, UserMessage(scan.toolResults)), live)
         /\ rsp' = scan.rsp
         /\ UNCHANGED <<pc, returnedErr>>

\* A variant that reports nothing when the call fails.
CallFailedSilently(r, err) == r

\* The response when client.Messages.New returns an error.
CallFailed(r, err) == Fatal(r, Wrap(<<err>>, "cannot message Claude"))

\* One iteration of the loop: the call, the scan of the reply, and the tool
\* results fed back.  calls is the new call count.
Iteration(calls, live) ==
    /\ pc = "loop"
    /\ UNCHANGED <<req, ctxCancelled, client, cur, parked>>
    /\ nCalls' = calls
    /\ sent' = messages
    /\ \E m \in MessagesNew(client, ctxCancelled, calls, LastStatusJSON) :
         /\ message' = m
         /\ IF ~m.ok
            THEN /\ Return(CallFailed(rsp, m.err))
                 /\ UNCHANGED messages
            ELSE \E scan \in {ScanBlocks(m.content, 1, <<>>, rsp)} :
                   AfterReply(Append(messages, ToParam(m.content)), scan, live)

\* An iteration within the bound on calls.
Round == nCalls < MaxCalls /\ Iteration(nCalls + 1, FALSE)

\* The request context is cancelled while RunFunction runs.
CancelContext ==
    /\ pc # "done"
    /\ ~ctxCancelled
    /\ ctxCancelled' = TRUE
    /\ UNCHANGED <<req, pc, client, messages, rsp, nCalls, sent, message, returnedErr,
                   cur, parked>>

Cancel == nCalls < MaxCalls /\ CancelContext

Next == Prepare \/ Round \/ Cancel

Spec == Init /\ [][Next]_vars

\* The loop without the bound on calls: the call count stops counting at
\* MaxCalls and the history keeps its latest turns.
RoundUnbounded ==
    Iteration(IF nCalls < MaxCalls THEN nCalls + 1 ELSE nCalls, TRUE)

NextLive == Prepare \/ RoundUnbounded \/ CancelContext

\* Every model-service call returns and the handler then runs on to the
\* next call or to its return, so an iteration that can be taken is taken;
\* nothing obliges the context to be cancelled.
LiveSpec ==
    Init /\ [][NextLive]_vars /\ WF_vars(RoundUnbounded)

\* ------------------------------------------------------------------------
\* Invocations running concurrently on one Function.
\* ------------------------------------------------------------------------

\* The locals of an invocation as a record, and those of one that has not
\* started on its request r.
Locals ==
    [req |-> req, pc |-> pc, ctxCancelled |-> ctxCancelled, client |-> client,
     messages |-> messages, rsp |-> rsp, nCalls |-> nCalls, sent |-> sent,
     message |-> message, returnedErr |-> returnedErr]

FreshLocals(r) ==
    [req |-> r, pc |-> "start", ctxCancelled |-> FALSE, client |-> "none",
     messages |-> <<>>, rsp |-> [desired |-> NoDesired, conditions |-> <<>>, results |-> <<>>],
     nCalls |-> 0, sent |-> <<>>, message |-> NoMessage, returnedErr |-> "none"]

\* The requests of the concurrent runs: an API key, resources that
\* marshal, and a prior condition RunFunction attached itself; the one
\* with the healthy prior condition carries no desired state, the one with
\* the stalled prior condition does.
ConcRequests ==
    { r \in Requests :
        /\ r.input = "ok" /\ r.composite = "ok" /\ r.auth = "key"
        /\ \A k \in DOMAIN r.composed : r.composed[k] # "bad"
        /\ r.conditions \in { <<ReadyCondition, AsCondition(s)>> : s \in {HealthyStatus, StalledStatus} }
        /\ (r.desired = NoDesired) = (r.conditions[2].status = "True") }

\* Invocation 1 is the one whose request carries desired state (the
\* numbering of the invocations is arbitrary).
ConcInit ==
    /\ req \in { r \in ConcRequests : r.desired # NoDesired }
    /\ pc = "start"
    /\ ctxCancelled = FALSE
    /\ client = "none"
    /\ messages = <<>>
    /\ rsp = [desired |-> NoDesired, conditions |-> <<>>, results |-> <<>>]
    /\ nCalls = 0
    /\ sent = <<>>
    /\ message = NoMessage
    /\ returnedErr = "none"
    /\ cur = 1
    /\ \E r \in ConcRequests \ {req} : parked = (2 :> FreshLocals(r))

\* The locals of invocation i become the variables.
Resume(i) ==
    /\ req' = parked[i].req
    /\ pc' = parked[i].pc
    /\ ctxCancelled' = parked[i].ctxCancelled
    /\ client' = parked[i].client
    /\ messages' = parked[i].messages
    /\ rsp' = parked[i].rsp
    /\ nCalls' = parked[i].nCalls
    /\ sent' = parked[i].sent
    /\ message' = parked[i].message
    /\ returnedErr' = parked[i].returnedErr

\* A variant in which the message history belongs to the Function and not
\* to the invocation.
SwitchSharingHistory ==
    \E i \in DOMAIN parked :
        /\ parked[i].pc # "done"
        /\ cur' = i
        /\ parked' = (cur :> Locals)
        /\ req' = parked[i].req
        /\ pc' = parked[i].pc
        /\ ctxCancelled' = parked[i].ctxCancelled
        /\ client' = parked[i].client
        /\ UNCHANGED messages
        /\ rsp' = parked[i].rsp
        /\ nCalls' = parked[i].nCalls
        /\ sent' = parked[i].sent
        /\ message' = parked[i].message
        /\ returnedErr' = parked[i].returnedErr

\* The scheduler goes from the current invocation to another that has
\* not returned: every
\* variable of RunFunction is local to its goroutine, the Function's
\* fields (the template, the logger, the client) are only read.
Switch ==
    \E i \in DOMAIN parked :
        /\ parked[i].pc # "done"
        /\ cur' = i
        /\ parked' = (cur :> Locals)
        /\ Resume(i)

\* The first round of an invocation.
FirstRound == nCalls = 0 /\ Iteration(1, FALSE)

ConcNext == Prepare \/ FirstRound \/ Switch

ConcSpec == ConcInit /\ [][ConcNext]_vars
\* ------------------------------------------------------------------------
\* Vocabulary of the properties.
\* ------------------------------------------------------------------------

Fatals(r)  == SelectSeq(r.results, LAMBDA x : x.severity = severityFatal)
Normals(r) == SelectSeq(r.results, LAMBDA x : x.severity = severityNormal)

\* A success response and a fatal response.
IsSuccess(r) ==
    /\ Len(r.conditions) = 1
    /\ r.conditions[1].type = conditionTypeClaudeHealthy
    /\ Len(Normals(r)) = 1
    /\ Len(Fatals(r)) = 0

IsFatal(r) ==
    /\ Len(Fatals(r)) >= 1
    /\ Len(r.conditions) = 0
    /\ Len(Normals(r)) = 0

IsToolUse(b)   == b.type = "tool_use"
IsSubmit(b)    == IsToolUse(b) /\ b.name = submitStatusToolName
IsUnknownTool(b) == IsToolUse(b) /\ b.name # submitStatusToolName
\* The last-status texts a data prompt may carry: one for each prior
\* condition lastStatusFromObserved accepts.
LastStatusTexts ==
    { EncStatus(lastStatusFromCondition(c).status) :
        c \in { d \in PriorConditions : lastStatusFromCondition(d).err = <<>> } }

\* What json.Unmarshal makes of each status stream the service may send.
DecodeOutcomes ==
    [ y \in StatusStreams(<<Null>>) \cup LastStatusTexts |-> UnmarshalStatus(y) ]

\* The outcome of decoding the status_stream of a submission.
DecodeOutcome(b) == DecodeOutcomes[StatusStreamOf(b.input)]

\* A submit_status call with a non-empty status_stream that does not decode.
IsUndecodable(b) ==
    IsSubmit(b) /\ StatusStreamOf(b.input) # <<>> /\ DecodeOutcome(b).err # ""
IsDecodable(b) ==
    IsSubmit(b) /\ StatusStreamOf(b.input) # <<>> /\ DecodeOutcome(b).err = ""
IsEmptySubmit(b) == IsSubmit(b) /\ StatusStreamOf(b.input) = <<>>

ToolUses(content) == SelectSeq(content, IsToolUse)

\* Block i is reached by the in-order scan: every block before it is a text
\* block or an undecodable submission.
Reached(content, i) ==
    \A j \in 1..(i - 1) : ~IsToolUse(content[j]) \/ IsUndecodable(content[j])

\* The status decoded from a block.
StatusOf(b) == DecodeOutcome(b).v

\* A condition as the next request observes it on the composite resource.
AsObserved(c) ==
    Condition(c.type,
              IF c.status = statusTrue THEN "True"
              ELSE IF c.status = statusFalse THEN "False" ELSE "Unknown",
              c.message, c.reason)

\* The prior HealthyAccordingToClaude condition of the request, if any.
HasPrior == \E i \in 1..Len(req.conditions) : req.conditions[i].type = conditionTypeClaudeHealthy
Prior    == GetCondition(req.conditions, conditionTypeClaudeHealthy)

\* The steps before lastStatusFromObserved succeed for this request.
EarlierStepsOK ==
    /\ req.input = "ok"
    /\ req.composite = "ok"
    /\ \A k \in DOMAIN req.composed : req.composed[k] # "bad"

\* ------------------------------------------------------------------------
\* Properties.
\* ------------------------------------------------------------------------

\* C1: every response RunFunction returns is either a success response
\* (exactly one HealthyAccordingToClaude condition, exactly one result of
\* normal severity, no fatal result) or a fatal response (at least one
\* fatal result, no condition, no normal result); and no response ever
\* carries a fatal result together with a condition or a normal result.
C1_ResponseShape ==
    /\ ~(Len(Fatals(rsp)) > 0 /\ (Len(rsp.conditions) > 0 \/ Len(Normals(rsp)) > 0))
    /\ pc = "done" => (IsSuccess(rsp) \/ IsFatal(rsp))

\* getClient failed, RunFunction went on, and the call failed as well.
C1_Witness == pc = "done" /\ client = "zero" /\ Len(Fatals(rsp)) = 2

\* C2: when the observed composite carries no HealthyAccordingToClaude
\* condition, lastStatusFromObserved does not fail and RunFunction goes on
\* to the model conversation.
C2_AbsentPriorProceeds ==
    (pc = "done" /\ ~HasPrior /\ EarlierStepsOK)
        => (lastStatusFromObserved(req).err = <<>> /\ nCalls >= 1)

\* C3: when the first reply's one tool call is a submit_status with an
\* undecodable status_stream and the second reply's one tool call is a
\* submit_status with a decodable one, the request ends after exactly two
\* calls, the second call's history ends with a user turn whose tool result
\* carries the first call's decode error, marked as an error, and the
\* response is the success response of the second payload.
C3_RetryCase ==
    /\ nCalls = 2
    /\ message.ok
    /\ Len(sent) = 4
    /\ Len(ToolUses(sent[3].content)) = 1
    /\ IsUndecodable(ToolUses(sent[3].content)[1])
    /\ Len(ToolUses(message.content)) = 1
    /\ IsDecodable(ToolUses(message.content)[1])

C3_RetryAfterUndecodable ==
    C3_RetryCase =>
        /\ pc = "done"
        /\ sent[4].role = "user"
        /\ sent[4].content =
              << [type |-> "tool_result",
                  tool_use_id |-> ToolUses(sent[3].content)[1].id,
                  content |-> DecodeOutcome(ToolUses(sent[3].content)[1]).err,
                  is_error |-> TRUE] >>
        /\ IsSuccess(rsp)
        /\ rsp.conditions[1] = ConditionOf(StatusOf(ToolUses(message.content)[1]))

C3_Witness == C3_RetryCase /\ pc = "done"

\* A fatal result of r names the tool of block b as unknown.
NamesUnknownTool(r, b) ==
    \E k \in 1..Len(r.results) :
        /\ r.results[k].severity = severityFatal
        /\ r.results[k].message = <<"Claude tried to use unknown tool ", b.name>>

\* C4 as stated: a reply with a tool-use block of another name than
\* submit_status, at any position, ends the request with a fatal error
\* naming that tool and no condition.
C4_UnknownToolAnywhere ==
    \A i \in 1..Len(message.content) :
        (message.ok /\ IsUnknownTool(message.content[i]))
            => (pc = "done" /\ Len(rsp.conditions) = 0 /\ NamesUnknownTool(rsp, message.content[i]))

\* C4 amended: a tool-use block of another name than submit_status that the
\* in-order scan reaches (every block before it is a text block or an
\* undecodable submit_status call) ends the request with a fatal error
\* naming that tool and no condition.
C4_UnknownToolReached ==
    \A i \in 1..Len(message.content) :
        (message.ok /\ IsUnknownTool(message.content[i]) /\ Reached(message.content, i))
            => (pc = "done" /\ Len(rsp.conditions) = 0 /\ NamesUnknownTool(rsp, message.content[i]))

\* An unknown tool behind an undecodable submission.
C4_Witness ==
    /\ pc = "done"
    /\ message.ok
    /\ Len(message.content) = 2
    /\ IsUndecodable(message.content[1])
    /\ IsUnknownTool(message.content[2])

\* C5: a reply without any tool-use block, in the first round or a later
\* one, ends the request (no further call) with a fatal error and no
\* condition.
C5_NoToolUseIsFatal ==
    (message.ok /\ Len(ToolUses(message.content)) = 0)
        => (pc = "done" /\ IsFatal(rsp))

\* A text-only reply in the second round.
C5_Witness ==
    /\ pc = "done"
    /\ nCalls = 2
    /\ message.ok
    /\ Len(message.content) > 0
    /\ Len(ToolUses(message.content)) = 0


\* Block i of the latest reply is a decodable submission the in-order scan
\* reached: the block RunFunction returns on.
AcceptedAt(i) ==
    /\ message.ok
    /\ i \in 1..Len(message.content)
    /\ IsDecodable(message.content[i])
    /\ Reached(message.content, i)

\* The response carries the condition and the one normal result of status s.
CarriesStatus(r, s) ==
    /\ r.conditions =
         << [type    |-> "HealthyAccordingToClaude",
             message |-> s.summary,
             reason  |-> EncResourceStatuses(s.resourceStatuses),
             status  |-> IF s.overallStatus = "Ready" THEN statusTrue ELSE statusFalse] >>
    /\ Normals(r) =
         << [severity |-> severityNormal,
             message  |-> <<s.summary>>,
             reason   |-> EncResourceStatuses(s.resourceStatuses)] >>

\* C6: for every decoded status s, the attached condition has type
\* HealthyAccordingToClaude, status true exactly when s.overallStatus is
\* "Ready" (false for any other string, the empty one included), message
\* s.summary and reason the JSON encoding of s.resourceStatuses; the one
\* normal result has the same summary as message and the same JSON as
\* reason.
C6_ConditionMapping ==
    \A i \in 1..Len(message.content) :
        AcceptedAt(i) =>
            (pc = "done" /\ CarriesStatus(rsp, StatusOf(message.content[i])))

\* A status whose overall status is the empty string was accepted.
C6_Witness ==
    /\ pc = "done"
    /\ \E i \in 1..Len(message.content) :
         AcceptedAt(i) /\ StatusOf(message.content[i]).overallStatus = ""

\* lastStatusFromObserved reads the status s back from the condition c.
ReadsBack(c, s) ==
    lastStatusFromCondition(AsObserved(c)) = [status |-> s, err |-> <<>>]

\* C7 as stated: every status accepted from the model, encoded into the
\* condition and decoded again by lastStatusFromObserved, comes back equal
\* field for field.
C7_RoundTripAccepted ==
    \A i \in 1..Len(message.content) :
        (pc = "done" /\ AcceptedAt(i))
            => ReadsBack(rsp.conditions[1], StatusOf(message.content[i]))

\* The overallStatus of s is one of the two the data model allows.
IsValidStatus(s) == s.overallStatus \in {"Ready", "NotReady"}

\* C7 amended: every accepted status whose overallStatus is "Ready" or
\* "NotReady", encoded into the condition and decoded again by
\* lastStatusFromObserved, comes back equal field for field
\* (resourceStatuses, overallStatus, summary).
C7_RoundTripValid ==
    \A i \in 1..Len(message.content) :
        (pc = "done" /\ AcceptedAt(i) /\ IsValidStatus(StatusOf(message.content[i])))
            => ReadsBack(rsp.conditions[1], StatusOf(message.content[i]))

\* A NotReady status with a resource status was accepted.
C7_Witness ==
    /\ pc = "done"
    /\ \E i \in 1..Len(message.content) :
         /\ AcceptedAt(i)
         /\ StatusOf(message.content[i]).overallStatus = "NotReady"
         /\ StatusOf(message.content[i]).resourceStatuses = MkSlice(<<StalledDB>>)

\* The request has ended on a submission that echoes the last status of
\* the data prompt.
EchoAccepted ==
    /\ pc = "done"
    /\ HasPrior
    /\ \E i \in 1..Len(message.content) :
         StatusStreamOf(message.content[i].input) = LastStatusJSON /\ AcceptedAt(i)

\* The attached condition equals the prior one in status, message and reason.
SameAsPrior ==
    /\ Len(rsp.conditions) = 1
    /\ AsObserved(rsp.conditions[1]).status = Prior.status
    /\ rsp.conditions[1].message = Prior.message
    /\ rsp.conditions[1].reason = Prior.reason

\* C8 as stated: with a prior condition whose reason decodes and a model
\* that submits back the last-status JSON of the prompt, the attached
\* condition has the prior condition's status, message and reason.
C8_EchoKeepsCondition ==
    EchoAccepted => SameAsPrior

\* The prior condition is one RunFunction attaches: its status is True or
\* False and its reason is the JSON encoding of the statuses it decodes to.
PriorIsCanonical ==
    /\ Prior.status \in {"True", "False"}
    /\ Prior.reason = EncResourceStatuses(lastStatusFromObserved(req).status.resourceStatuses)

\* C8 amended: with a prior condition whose status is True or False and
\* whose reason is the JSON encoding json.Marshal gives of its resource
\* statuses, and a model that submits back the last-status JSON of the
\* prompt, the attached condition has the prior condition's status, message
\* and reason.
C8_EchoKeepsCanonical ==
    (EchoAccepted /\ PriorIsCanonical) => SameAsPrior

\* The stalled prior condition was echoed.
C8_Witness ==
    /\ EchoAccepted
    /\ PriorIsCanonical
    /\ Prior.status = "False"
    /\ Prior.message = StalledStatus.summary

\* C9: every invocation of the conversation driver in which each
\* model-service call returns ends, for every sequence of replies, with a
\* condition from a successful submission or with a terminal failure.
C9_Terminates ==
    (pc = "loop") ~> (pc = "done" /\ (IsSuccess(rsp) \/ IsFatal(rsp)))

\* The fatal result RunFunction gives for a failed model-service call.
ReportedAsFailedCall(r) ==
    \E k \in 1..Len(r.results) :
        /\ r.results[k].severity = severityFatal
        /\ Head(r.results[k].message) = "cannot message Claude"

\* C10: a cancelled request context is not reported through the fatal
\* result of a failed model-service call.
C10_CancelNotFatal ==
    (pc = "done" /\ ctxCancelled /\ message.err = errContextCanceled)
        => ~ReportedAsFailedCall(rsp)

\* The latest call of client.Messages.New returned an error.
CallErrored == nCalls >= 1 /\ ~message.ok /\ message.err # ""

\* C11: when a model-service call returns an error, in whatever round, the
\* request ends there (no further call), the response is fatal and carries
\* no condition.
C11_CallErrorIsFatal ==
    CallErrored =>
        /\ pc = "done"
        /\ IsFatal(rsp)
        /\ ReportedAsFailedCall(rsp)
        /\ messages = sent

\* The service failed in the second round, after tool results were fed back.
C11_Witness ==
    /\ pc = "done"
    /\ nCalls = 2
    /\ CallErrored
    /\ message.err = errService
    /\ Len(sent) = 4

\* A step before the conversation failed for this request: the input, the
\* composite, the composed resources, the last status or the client.
StepBeforeConversationFailed ==
    \/ ~EarlierStepsOK
    \/ lastStatusFromObserved(req).err # <<>>
    \/ client = "zero"

\* C12: if a step before the conversation fails, RunFunction returns at
\* once with exactly one fatal result and calls the model service never.
C12_FailureBeforeConversation ==
    (pc # "start" /\ StepBeforeConversationFailed)
        => /\ pc = "done"
           /\ nCalls = 0
           /\ Len(rsp.results) = 1
           /\ rsp.results[1].severity = severityFatal

\* A fatal result of r tells that the tool of block b came without
\* a status_stream.
NamesMissingStream(r, b) ==
    \E k \in 1..Len(r.results) :
        /\ r.results[k].severity = severityFatal
        /\ r.results[k].message =
             <<"Claude didn't provide 'status_stream' input property for tool ", b.name>>

\* C13: whenever the scan reaches a submit_status block whose status_stream
\* is missing or empty, the request ends with a fatal error and no
\* condition, nothing is fed back (the history ends with the reply) and no
\* further call is made, also when earlier blocks gave tool results.
C13_EmptyStreamIsFatal ==
    \A i \in 1..Len(message.content) :
        (message.ok /\ IsEmptySubmit(message.content[i]) /\ Reached(message.content, i))
            => /\ pc = "done"
               /\ IsFatal(rsp)
               /\ NamesMissingStream(rsp, message.content[i])
               /\ messages = Append(sent, ToParam(message.content))

\* An empty status_stream behind an undecodable submission.
C13_Witness ==
    /\ pc = "done"
    /\ message.ok
    /\ Len(message.content) = 2
    /\ IsUndecodable(message.content[1])
    /\ IsEmptySubmit(message.content[2])
    /\ message.content[2].input.present

\* C14: as soon as the scan reaches a submit_status block whose
\* status_stream decodes, RunFunction returns the success response of that
\* block: no further call, the blocks behind it are not inspected (no fatal
\* result whatever they are), and the tool results gathered from the blocks
\* before it are dropped (the history ends with the reply).
C14_FirstDecodableWins ==
    \A i \in 1..Len(message.content) :
        AcceptedAt(i) =>
            /\ pc = "done"
            /\ IsSuccess(rsp)
            /\ Len(rsp.results) = 1
            /\ rsp.conditions[1] = ConditionOf(StatusOf(message.content[i]))
            /\ messages = Append(sent, ToParam(message.content))

\* A decodable submission with a tool behind it that would have ended the
\* request otherwise.
C14_Witness ==
    /\ pc = "done"
    /\ message.ok
    /\ Len(message.content) = 2
    /\ IsDecodable(message.content[1])
    /\ IsUnknownTool(message.content[2])

\* Every tool-use block of the reply is a submit_status call with a
\* non-empty undecodable status_stream, and there is one at least.
AllUndecodable(content) ==
    /\ Len(ToolUses(content)) >= 1
    /\ \A k \in 1..Len(ToolUses(content)) : IsUndecodable(ToolUses(content)[k])

\* The tool results for the tool-use blocks of a reply, in reply order.
ErrorResultsFor(content) ==
    [ k \in 1..Len(ToolUses(content)) |->
        [type        |-> "tool_result",
         tool_use_id |-> ToolUses(content)[k].id,
         content     |-> DecodeOutcome(ToolUses(content)[k]).err,
         is_error    |-> TRUE] ]

\* C15: a reply whose tool-use blocks are all submit_status calls with a
\* non-empty undecodable status_stream does not end the request: one user
\* turn is appended with one tool result per tool-use block, in reply
\* order, each with the block's id and decode error text and marked as an
\* error, and RunFunction is at the head of the loop for the next call.
C15_UndecodableGoesOn ==
    (message.ok /\ AllUndecodable(message.content))
        => /\ pc = "loop"
           /\ Len(rsp.conditions) = 0
           /\ messages = sent \o << ToParam(message.content),
                                    [role |-> "user", content |-> ErrorResultsFor(message.content)] >>

\* Two undecodable submissions in one reply.
C15_Witness ==
    /\ pc = "loop"
    /\ message.ok
    /\ Len(ToolUses(message.content)) = 2
    /\ AllUndecodable(message.content)

\* A user turn of tool results only.
IsToolResultTurn(m) ==
    /\ m.role = "user"
    /\ Len(m.content) >= 1
    /\ \A k \in 1..Len(m.content) : m.content[k].type = "tool_result"

\* What call number k is sent, given what the call before it was sent
\* (before) and the reply to that call (reply).
WellFormedCall(k, before, reply, now) ==
    /\ Len(now) = 2 * k
    /\ IF k = 1
       THEN /\ now[1] = [role |-> "user", content |-> <<[type |-> "text", text |-> prompt]>>]
            /\ now[2].role = "user"
            /\ Len(now[2].content) = 1
            /\ now[2].content[1].text.LastStatus = EncStatus(lastStatusFromObserved(req).status)
       ELSE /\ SubSeq(now, 1, Len(before)) = before
            /\ now[2 * k - 1] = [role |-> "assistant", content |-> reply.content]
            /\ IsToolResultTurn(now[2 * k])

\* C16: the k-th call of an invocation is sent exactly 2k messages: the
\* instruction turn, the data turn, then for each earlier call the reply to
\* it and a user turn of tool results; what an earlier call was sent is a
\* prefix of what a later call is sent.
C16_HistoryAppendOnly ==
    [][ nCalls' # nCalls
          => (nCalls' = nCalls + 1 /\ WellFormedCall(nCalls', sent, message, sent')) ]_vars

\* A second call was sent the two prompts and one pair.
C16_Witness ==
    /\ nCalls = 2
    /\ Len(sent) = 4
    /\ sent[3].role = "assistant"
    /\ IsToolResultTurn(sent[4])

\* C17: for one and the same map ProtoMapToJSON gives one and the same
\* outcome (the text, or the error with the key it names) in whatever
\* order the map's entries are visited, for every request RunFunction
\* converts the composed resources of.
C17_OrderIndependent ==
    (pc # "start" /\ req.input = "ok" /\ req.composite = "ok") =>
        \A o1, o2 \in VisitOrders(req.composed) :
            ProtoMapToJSON(req.composed, o1) = ProtoMapToJSON(req.composed, o2)

\* C19: on every path RunFunction returns a nil Go error and a response
\* whose desired composite and desired composed resources are those of the
\* request; conditions and results are all it adds.
C19_DesiredUntouched ==
    pc = "done" =>
        /\ returnedErr = "nil"
        /\ rsp.desired = req.desired
        /\ Len(rsp.conditions) + Len(rsp.results) >= 1

\* A success response for a request that carries desired state.
C19_Witness ==
    /\ pc = "done"
    /\ IsSuccess(rsp)
    /\ req.desired.resources = {"db-1"}
    /\ rsp.desired.composite = "desired-xr"

\* The two prompts RunFunction builds for request r.
PromptsFor(r) ==
    << [role |-> "user", content |-> <<[type |-> "text", text |-> prompt]>>],
       [role |-> "user",
        content |-> <<[type |-> "text",
                       text |-> [Composite  |-> MarshalComposite(r).text,
                                 Composed   |-> MarshalIndent(r.composed),
                                 LastStatus |-> EncStatus(lastStatusFromObserved(r).status),
                                 Input      |-> "additional context"]]>>] >>

\* The prompts of the requests of the concurrent runs, which differ in the
\* status of the prior condition.
PromptsOfConcRequests ==
    [ st \in { r.conditions[2].status : r \in ConcRequests } |->
        PromptsFor(CHOOSE r \in ConcRequests : r.conditions[2].status = st) ]

OwnPrompts(r) == PromptsOfConcRequests[r.conditions[2].status]

\* The response of the invocation with locals l stems from its own request
\* and its own reply.
OwnResponse(l) ==
    /\ l.rsp.desired = l.req.desired
    /\ Len(l.rsp.conditions) = 1 =>
         \E i \in 1..Len(l.message.content) :
             /\ IsDecodable(l.message.content[i])
             /\ l.rsp.conditions[1] = ConditionOf(StatusOf(l.message.content[i]))
    /\ (l.nCalls = 0 /\ l.pc = "loop") => l.rsp = ResponseTo(l.req)

\* The history of the invocation with locals l holds its own prompts, what
\* its own call was sent, and its own reply.
OwnHistory(l) ==
    /\ SubSeq(l.messages, 1, 2) = OwnPrompts(l.req)
    /\ l.nCalls = 0 => (l.sent = <<>> /\ Len(l.messages) = 2)
    /\ l.nCalls = 1 => l.sent = OwnPrompts(l.req)
    /\ (l.nCalls = 1 /\ l.message.ok) =>
         /\ l.messages[3] = [role |-> "assistant", content |-> l.message.content]
         /\ Len(l.messages) = 4 => l.messages[4].content = ErrorResultsFor(l.message.content)

\* The invocation with locals l holds nothing of another invocation.
Isolated(l) ==
    IF l.pc = "start" THEN l = FreshLocals(l.req)
    ELSE OwnHistory(l) /\ OwnResponse(l)

\* C18: with invocations running concurrently on one Function, in every
\* interleaving the message history and the response of each invocation
\* stem from its own request and its own replies only.
C18_InvocationsIsolated ==
    /\ Isolated(Locals)
    /\ \A i \in DOMAIN parked : Isolated(parked[i])

\* Both invocations have called the model service, one has returned a
\* success response and the other goes on after an undecodable reply.
C18_Witness ==
    /\ DOMAIN parked # {}
    /\ pc = "done"
    /\ IsSuccess(rsp)
    /\ \E i \in DOMAIN parked :
         /\ parked[i].pc = "loop"
         /\ parked[i].nCalls = 1
         /\ parked[i].req # req
====
